---- MODULE Spec2Model ----
(***************************************************************************)
(* A model of the vaultx CLI: the "secrets create" command (CreateSecrets, *)
(* GetSecretEngines, findMountForSecret) and the "secrets copy" command    *)
(* (GetSourceMountVersion, ListSecrets, CopySecrets).                      *)
(*                                                                         *)
(* Go strings are sequences of one-character strings, so that prefixes,   *)
(* suffixes and path.Join are computed, not assumed.  The alphabet has no  *)
(* "." character: path.Clean's handling of "." and ".." is not exercised.  *)
(* The Vault servers are the environment: their answers (keys, payloads,  *)
(* errors) are chosen nondeterministically where the code calls them.      *)
(***************************************************************************)
EXTENDS Integers, Sequences, FiniteSets, TLC

VARIABLES
    cmd,          \* which subcommand runs: "create" or "copy"
    pc,           \* position of the command
    mounts,       \* the source server's mount table: mount path -> metadata
    secrets,      \* create: the parsed definitions document, path -> payload
    pending,      \* create: entries of the document the range loop has not visited
    outcome,      \* create: per visited entry, the branch the loop body took
    sourceMount,  \* copy: the --source-mount argument
    targetMount,  \* copy: the --target-mount argument
    targetVersion,\* copy: protocol variant of the target mount (on the target server)
    source,       \* copy: the source mount's store, relative leaf path -> payload
    target,       \* copy: the target server's store under targetMount, path -> stored value
    kvVersion,    \* copy: the version string CopySecrets / ListSecrets detected
    stack,        \* copy: the recursion stack of traverse
    secretsList,  \* copy: the list traverse accumulates
    idx,          \* copy: number of entries of secretsList the copy loop has finished
    calls,        \* every request issued to a server, in order
    ret           \* what the command's function returned

vars == << cmd, pc, mounts, secrets, pending, outcome, sourceMount, targetMount,
           targetVersion, source, target, kvVersion, stack, secretsList, idx,
           calls, ret >>

(***************************************************************************)
(* Bounds of the model.                                                    *)
(***************************************************************************)
MaxEntries == 2   \* entries in the definitions document
MaxMounts  == 2   \* mounts in the mount table of a create run
MaxLeaves  == 2   \* leaf secrets under the source mount of a copy run

(***************************************************************************)
(* Strings.                                                                *)
(***************************************************************************)
Slash == "/"
Empty == << >>

Str1(c) == << c >>

\* strings.HasPrefix
HasPrefix(s, p) == Len(p) <= Len(s) /\ SubSeq(s, 1, Len(p)) = p

\* strings.HasSuffix
HasSuffix(s, p) == Len(p) <= Len(s) /\ SubSeq(s, Len(s) - Len(p) + 1, Len(s)) = p

\* strings.TrimPrefix: s without the leading p, or s itself
TrimPrefix(s, p) == IF HasPrefix(s, p) THEN SubSeq(s, Len(p) + 1, Len(s)) ELSE s

\* strings.TrimSuffix: s without the trailing p, or s itself
TrimSuffix(s, p) == IF HasSuffix(s, p) THEN SubSeq(s, 1, Len(s) - Len(p)) ELSE s

\* The "/"-separated segments of s, empty ones dropped (path.Clean collapses
\* repeated separators and drops a trailing one).
RECURSIVE Segments(_)
Segments(s) ==
    IF s = Empty THEN << >>
    ELSE IF Head(s) = Slash THEN Segments(Tail(s))
    ELSE LET n == IF \E i \in 1..Len(s) : s[i] = Slash
                  THEN (CHOOSE i \in 1..Len(s) :
                            s[i] = Slash /\ \A j \in 1..(i-1) : s[j] # Slash) - 1
                  ELSE Len(s)
         IN  << SubSeq(s, 1, n) >> \o Segments(SubSeq(s, n + 1, Len(s)))

RECURSIVE JoinSegments(_)
JoinSegments(segs) ==
    IF segs = << >> THEN Empty
    ELSE IF Len(segs) = 1 THEN segs[1]
    ELSE segs[1] \o Str1(Slash) \o JoinSegments(Tail(segs))

\* path.Clean on a non-empty string without "." characters
Clean(s) ==
    IF Head(s) = Slash THEN Str1(Slash) \o JoinSegments(Segments(s))
    ELSE JoinSegments(Segments(s))

\* path.Join(a, b): empty elements are ignored, the rest joined by "/" and cleaned
PathJoin(a, b) ==
    IF a = Empty /\ b = Empty THEN Empty
    ELSE IF a = Empty THEN Clean(b)
    ELSE IF b = Empty THEN Clean(a)
    ELSE Clean(a \o Str1(Slash) \o b)

\* All orders in which a range loop can visit the set S
Orders(S) == { f \in [1..Cardinality(S) -> S] : \A x \in S : \E i \in DOMAIN f : f[i] = x }

(***************************************************************************)
(* Mount metadata, as MountsListSecretsEngines reports it: an "options"    *)
(* map that may be missing, holding a "version" string that may be missing.*)
(***************************************************************************)
MetaVersion(v) == [hasOptions |-> TRUE, hasVersion |-> TRUE, version |-> v]
MetaNoVersion  == [hasOptions |-> TRUE, hasVersion |-> FALSE, version |-> ""]
MetaNoOptions  == [hasOptions |-> FALSE, hasVersion |-> FALSE, version |-> ""]

\* The zero value of MountInfo, which a Go map returns for a missing key
ZeroMountInfo == [MountPath |-> Empty, Version |-> ""]

\* mounts[key] on a Go map
MapGet(m, key) == IF key \in DOMAIN m THEN m[key] ELSE ZeroMountInfo

\* GetSecretEngines: the version is "" unless options.version is a string.
\* (A mount whose data is not a map is left out of the result, as if the
\* server had not reported it.)
GetSecretEngines(table) ==
    [ mountPath \in DOMAIN table |->
        [ MountPath |-> mountPath,
          Version   |-> IF table[mountPath].hasOptions /\ table[mountPath].hasVersion
                        THEN table[mountPath].version
                        ELSE "" ] ]

(***************************************************************************)
(* findMountForSecret.  `order` is the order in which the range loop       *)
(* visits the keys of the map.                                             *)
(***************************************************************************)
\* A loop body that takes every matching mount, whatever its length
BestMatchAnyPrefix(secretPath, bestMatch, mount) ==
    IF HasPrefix(secretPath, mount) THEN mount ELSE bestMatch

\* The loop body: a matching mount replaces bestMatch only when it is longer
BestMatchStep(secretPath, bestMatch, mount) ==
    IF HasPrefix(secretPath, mount) /\ Len(mount) > Len(bestMatch)
    THEN mount
    ELSE bestMatch

RECURSIVE BestMatchLoop(_, _, _)
BestMatchLoop(secretPath, order, bestMatch) ==
    IF order = << >> THEN bestMatch
    ELSE BestMatchLoop(secretPath, Tail(order),
                       BestMatchStep(secretPath, bestMatch, Head(order)))

\* The client is in the context of every command (InitVaultContext), so the
\* only error return of the function is never taken.
findMountForSecret(secretPath, mountsMap, order) ==
    LET bestMatch    == BestMatchLoop(secretPath, order, Empty)
        relativePath == TrimSuffix(TrimPrefix(secretPath, bestMatch), Str1(Slash))
    IN  [ mountInfo    |-> MapGet(mountsMap, bestMatch),
          relativePath |-> relativePath,
          err          |-> FALSE ]

(***************************************************************************)
(* Requests and payloads.                                                  *)
(***************************************************************************)
\* A secret's payload: an opaque mapping, or nil
Payload(p) == [ nil |-> FALSE, user |-> p ]
Nil        == [ nil |-> TRUE, user |-> Empty ]

\* One request to a server: the connection, the operation, the mount path and
\* path it was given, the payload sent or received, the server's answer, and
\* the document entry or listed path the request was made for.
Call(conn, op, mount, path, data, res, for) ==
    [ conn |-> conn, op |-> op, mount |-> mount, path |-> path,
      data |-> data, res |-> res, for |-> for ]

(***************************************************************************)
(* CreateSecrets.                                                          *)
(***************************************************************************)
\* A switch whose default case falls back to the legacy write
WriteOpDefaultV1(version) ==
    IF version = "2" THEN "KvV2Write" ELSE "KvV1Write"

\* The switch on mountInfo.Version: the write the loop body issues
WriteOpFor(version) ==
    IF version = "2" THEN "KvV2Write"
    ELSE IF version = "1" THEN "KvV1Write"
    ELSE "none"

\* A loop that stops at the first entry whose write fails
RemainingAbortOnFailure(rest, entry, res) == IF res = "ok" THEN rest \ {entry} ELSE {}

\* `continue` and the end of the loop body both go on to the next entry
Remaining(rest, entry, res) == rest \ {entry}

\* Flag validation, reading and parsing the file, listing the secret engines:
\* each failure ends the process with status 1.
CreateSetup ==
    /\ cmd = "create" /\ pc = "start"
    /\ \E ok \in BOOLEAN :
         /\ pc'  = IF ok THEN "loop" ELSE "exit1"
         /\ ret' = IF ok THEN ret ELSE "exit 1: setup"
    /\ UNCHANGED << cmd, mounts, secrets, pending, outcome, sourceMount, targetMount,
                    targetVersion, source, target, kvVersion, stack, secretsList,
                    idx, calls >>

\* One iteration of the range loop over the document
CreateEntry ==
    /\ cmd = "create" /\ pc = "loop"
    /\ LET mountsMap == GetSecretEngines(mounts) IN
       \E secretPath \in pending, order \in Orders(DOMAIN mountsMap) :
         LET r     == findMountForSecret(secretPath, mountsMap, order)
             mount == TrimSuffix(r.mountInfo.MountPath, Str1(Slash))
             op    == WriteOpFor(r.mountInfo.Version)
             found == [ mountInfo |-> r.mountInfo, relativePath |-> r.relativePath ]
         IN
         IF r.err
         THEN \* "mount not found for secret": continue
              /\ outcome' = outcome @@ (secretPath :> (found @@ [branch |-> "mount not found"]))
              /\ pending' = Remaining(pending, secretPath, "error")
              /\ calls' = calls
         ELSE IF op = "none"
         THEN \* default: "unsupported KV version"
              /\ outcome' = outcome @@
                    (secretPath :> (found @@ [branch |-> "unsupported version"]))
              /\ pending' = Remaining(pending, secretPath, "ok")
              /\ calls' = calls
         ELSE \* case "2", case "1": the write, which the server accepts or not
              \E res \in {"ok", "error"} :
                /\ outcome' = outcome @@
                      (secretPath :> (found @@
                          [branch |-> IF res = "ok" THEN "written" ELSE "write failed"]))
                /\ pending' = Remaining(pending, secretPath, res)
                /\ calls' = Append(calls, Call("source", op, mount, r.relativePath,
                                               secrets[secretPath], res, secretPath))
    /\ UNCHANGED << cmd, pc, mounts, secrets, sourceMount, targetMount, targetVersion,
                    source, target, kvVersion, stack, secretsList, idx, ret >>

\* The loop is over: return nil
CreateReturn ==
    /\ cmd = "create" /\ pc = "loop" /\ pending = {}
    /\ pc' = "done"
    /\ ret' = "nil"
    /\ UNCHANGED << cmd, mounts, secrets, pending, outcome, sourceMount, targetMount,
                    targetVersion, source, target, kvVersion, stack, secretsList,
                    idx, calls >>

(***************************************************************************)
(* Inputs of a create run.                                                 *)
(***************************************************************************)
MountA  == << "a", "/" >>
MountAB == << "a", "/", "b", "/" >>
MountB  == << "b", "/" >>
CreateMountPaths == { MountA, MountAB, MountB }

CreateMetas == { MetaVersion("1"), MetaVersion("2"), MetaVersion(""),
                 MetaVersion("3"), MetaNoVersion }

PathABC == << "a", "/", "b", "/", "c" >>   \* under both "a/" and "a/b/"
PathAC  == << "a", "/", "c" >>             \* under "a/" only
PathBC  == << "b", "/", "c", "/" >>        \* trailing separator
PathCA  == << "c", "/", "a" >>             \* under none of the mounts
CreateSecretPaths == { PathABC, PathAC, PathBC, PathCA, MountAB }

Subsets(U, n) == { X \in SUBSET U : Cardinality(X) <= n }

CreateInit ==
    /\ cmd = "create"
    /\ pc = "start"
    /\ \E D \in Subsets(CreateMountPaths, MaxMounts) : mounts \in [D -> CreateMetas]
    /\ \E D \in Subsets(CreateSecretPaths, MaxEntries) : secrets = [p \in D |-> Payload(p)]
    /\ pending = DOMAIN secrets
    /\ outcome = << >>
    /\ sourceMount = Empty /\ targetMount = Empty /\ targetVersion = ""
    /\ source = << >> /\ target = << >>
    /\ kvVersion = "" /\ stack = << >> /\ secretsList = << >> /\ idx = 0
    /\ calls = << >>
    /\ ret = "none"

(***************************************************************************)
(* The copy command: version detection.                                    *)
(***************************************************************************)
\* GetSourceMountVersion.  The mount table is looked up under the argument
\* with a "/" appended when it has none.  The two type assertions panic when
\* the mount or its options map is missing; a missing version is formatted
\* with %v, which prints a nil interface as "<nil>".
GetSourceMountVersion(table, arg) ==
    LET key == IF HasSuffix(arg, Str1(Slash)) THEN arg ELSE arg \o Str1(Slash) IN
    IF key \notin DOMAIN table \/ ~table[key].hasOptions
    THEN [ panic |-> TRUE, version |-> "" ]
    ELSE [ panic   |-> FALSE,
           version |-> IF table[key].hasVersion THEN table[key].version ELSE "<nil>" ]

(***************************************************************************)
(* The source server's key hierarchy.                                      *)
(***************************************************************************)
\* Leaf l lies below the namespace path p
IsUnder(l, p) ==
    LET sl == Segments(l)
        sp == Segments(p)
    IN  Len(sp) < Len(sl) /\ SubSeq(sl, 1, Len(sp)) = sp

\* The key a list call at p reports for leaf l: the next segment, with a
\* trailing "/" when l lies deeper
KeyAt(l, p) ==
    LET sl == Segments(l)
        n  == Len(Segments(p)) + 1
    IN  IF Len(sl) = n THEN sl[n] ELSE sl[n] \o Str1(Slash)

\* The keys the server lists directly under p
ListKeys(store, p) == { KeyAt(l, p) : l \in { x \in DOMAIN store : IsUnder(x, p) } }

(***************************************************************************)
(* ListSecrets and its closure traverse.  A stack frame is one activation  *)
(* of traverse: its currentPath, whether its list call has answered, and   *)
(* the keys its loop has not visited.                                      *)
(***************************************************************************)
Frame(path) == [ path |-> path, listed |-> FALSE, keys |-> << >> ]

Top == stack[Len(stack)]

Pop(st) == SubSeq(st, 1, Len(st) - 1)

ListOpFor(version) == IF version = "2" THEN "KvV2List" ELSE "KvV1List"

\* A check that takes no error for a not-found answer
Is404Never(res) == FALSE

\* strings.Contains(err.Error(), "404")
Is404(res) == res = "404"

\* A test that takes every key for a leaf
IsNamespaceKeyNever(key) == FALSE

\* strings.HasSuffix(key, "/")
IsNamespaceKey(key) == HasSuffix(key, Str1(Slash))

\* traverse returned nil to its caller: the caller's loop goes on, or, for
\* the outermost call, ListSecrets returns the list and the copy loop starts
ReturnNil ==
    /\ stack' = Pop(stack)
    /\ pc' = IF Len(stack) = 1 THEN "copy" ELSE pc
    /\ ret' = ret
    /\ secretsList' = secretsList

\* An error after which CopySecrets goes on with what traverse had gathered
ReturnErrKeepsPartialList ==
    /\ stack' = << >>
    /\ pc' = "copy"
    /\ ret' = ret
    /\ secretsList' = secretsList

\* traverse returned an error: every caller returns it at once, ListSecrets
\* returns (nil, err), a nil list, and CopySecrets ends the process with
\* status 1
ReturnErr ==
    /\ stack' = << >>
    /\ pc' = "exit1"
    /\ ret' = "exit 1: list secrets"
    /\ secretsList' = << >>

\* ListSecrets up to its call of traverse(""): it detects the version again
ListStart ==
    /\ cmd = "copy" /\ pc = "list"
    /\ \E mountsRes \in {"ok", "error"} :
         IF mountsRes = "error" \/ GetSourceMountVersion(mounts, sourceMount).panic
         THEN /\ pc' = "panic"
              /\ ret' = "panic: mount metadata in ListSecrets"
              /\ stack' = stack
         ELSE /\ pc' = "traverse"
              /\ ret' = ret
              /\ stack' = << Frame(Empty) >>
    /\ UNCHANGED << cmd, mounts, secrets, pending, outcome, sourceMount, targetMount,
                    targetVersion, source, target, kvVersion, secretsList, idx, calls >>

\* The default case of the switch: no list call, an error
TraverseUnsupported ==
    /\ cmd = "copy" /\ pc = "traverse" /\ ~Top.listed
    /\ kvVersion \notin {"1", "2"}
    /\ ReturnErr
    /\ UNCHANGED << cmd, mounts, secrets, pending, outcome, sourceMount, targetMount,
                    targetVersion, source, target, kvVersion, idx, calls >>

\* The list call answers with keys, in the order the server reports them
TraverseListOk ==
    /\ cmd = "copy" /\ pc = "traverse" /\ ~Top.listed
    /\ kvVersion \in {"1", "2"}
    /\ \E keys \in Orders(ListKeys(source, Top.path)) :
         stack' = [stack EXCEPT ![Len(stack)] = [@ EXCEPT !.listed = TRUE, !.keys = keys]]
    /\ calls' = Append(calls, Call("source", ListOpFor(kvVersion), sourceMount,
                                   Top.path, Nil, "ok", Top.path))
    /\ UNCHANGED << cmd, pc, mounts, secrets, pending, outcome, sourceMount, targetMount,
                    targetVersion, source, target, kvVersion, secretsList, idx, ret >>

\* The list call fails: a not-found answer ends this activation with nil,
\* any other error is wrapped and returned
TraverseListFail ==
    /\ cmd = "copy" /\ pc = "traverse" /\ ~Top.listed
    /\ kvVersion \in {"1", "2"}
    /\ \E res \in {"404", "500"} :
         /\ calls' = Append(calls, Call("source", ListOpFor(kvVersion), sourceMount,
                                        Top.path, Nil, res, Top.path))
         /\ IF Is404(res) THEN ReturnNil ELSE ReturnErr
    /\ UNCHANGED << cmd, mounts, secrets, pending, outcome, sourceMount, targetMount,
                    targetVersion, source, target, kvVersion, idx >>

\* One iteration of the loop over keys
TraverseKey ==
    /\ cmd = "copy" /\ pc = "traverse" /\ Top.listed /\ Top.keys # << >>
    /\ LET key  == Head(Top.keys)
           full == PathJoin(Top.path, key)
           rest == [stack EXCEPT ![Len(stack)] = [@ EXCEPT !.keys = Tail(@)]]
       IN  IF IsNamespaceKey(key)
           THEN /\ stack' = Append(rest, Frame(full))
                /\ secretsList' = secretsList
           ELSE /\ stack' = rest
                /\ secretsList' = Append(secretsList, PathJoin(sourceMount, full))
    /\ UNCHANGED << cmd, pc, mounts, secrets, pending, outcome, sourceMount, targetMount,
                    targetVersion, source, target, kvVersion, idx, calls, ret >>

\* The loop over keys is over: return nil
TraverseReturn ==
    /\ cmd = "copy" /\ pc = "traverse" /\ Top.listed /\ Top.keys = << >>
    /\ ReturnNil
    /\ UNCHANGED << cmd, mounts, secrets, pending, outcome, sourceMount, targetMount,
                    targetVersion, source, target, kvVersion, idx, calls >>

(***************************************************************************)
(* The servers' answers to reads and writes.                               *)
(***************************************************************************)
\* A read can fail at any time, and fails when nothing is stored at the path
ReadAnswers(store, path) == IF path \in DOMAIN store THEN {"ok", "error"} ELSE {"error"}

\* A versioned mount has no route for the legacy write ("invalid path for a
\* versioned K/V secrets engine"); every other write can succeed or fail
WriteAnswers(op, variant) ==
    IF op = "KvV1Write" /\ variant = "2" THEN {"error"} ELSE {"ok", "error"}

Put(store, key, value) ==
    [ k \in DOMAIN store \cup {key} |-> IF k = key THEN value ELSE store[k] ]

\* The versioned write posts {"data": payload} to <mount>/data/<path>
DataPath(path) == << "d", "a", "t", "a", "/" >> \o path

\* The store under a mount of the given variant after a write request.  A
\* legacy mount stores whatever body it is sent at whatever path it is sent
\* to, so a versioned write lands, wrapped, under data/.
ServerWrite(store, variant, op, path, data, res) ==
    IF res # "ok" THEN store
    ELSE IF op = WriteOpFor(variant)
    THEN Put(store, path, [ data |-> data, wrapped |-> FALSE ])
    ELSE Put(store, DataPath(path), [ data |-> data, wrapped |-> TRUE ])

(***************************************************************************)
(* CopySecrets.                                                            *)
(***************************************************************************)
ReadOpFor(version) == IF version = "2" THEN "KvV2Read" ELSE "KvV1Read"

\* The path the loop reads from and writes to
RelativePath(fullPath, mountArg) ==
    TrimPrefix(fullPath, TrimSuffix(mountArg, Str1(Slash)) \o Str1(Slash))

\* CopySecrets up to its call of ListSecrets: the target credentials come
\* from the environment, then the source mount's version is detected.  When
\* listing the mounts fails the response is nil and reading it panics.
CopySetup ==
    /\ cmd = "copy" /\ pc = "start"
    /\ \E envOk \in BOOLEAN, mountsRes \in {"ok", "error"} :
         LET v == GetSourceMountVersion(mounts, sourceMount) IN
         IF ~envOk
         THEN /\ pc' = "exit1"
              /\ ret' = "exit 1: setup"
              /\ kvVersion' = kvVersion
         ELSE IF mountsRes = "error" \/ v.panic
         THEN /\ pc' = "panic"
              /\ ret' = "panic: mount metadata"
              /\ kvVersion' = kvVersion
         ELSE /\ pc' = "list"
              /\ ret' = ret
              /\ kvVersion' = v.version
    /\ UNCHANGED << cmd, mounts, secrets, pending, outcome, sourceMount, targetMount,
                    targetVersion, source, target, stack, secretsList, idx, calls >>

\* One iteration of the loop over secretsList.  nilResponse says whether a
\* failed read hands back a nil response (the client library's code is not
\* part of the repository).
CopyEntry ==
    /\ cmd = "copy" /\ pc = "copy" /\ idx < Len(secretsList)
    /\ LET fullPath     == secretsList[idx + 1]
           relativePath == RelativePath(fullPath, sourceMount)
           readOp       == ReadOpFor(kvVersion)
           writeOp      == WriteOpFor(kvVersion)
       IN
       \E readRes \in ReadAnswers(source, relativePath),
          writeRes \in WriteAnswers(writeOp, targetVersion),
          nilResponse \in BOOLEAN :
         LET data  == IF readRes = "ok" THEN source[relativePath] ELSE Nil
             read  == Call("source", readOp, sourceMount, relativePath, data, readRes, fullPath)
             write == Call("target", writeOp, targetMount, relativePath, data, writeRes, fullPath)
         IN
         IF kvVersion \notin {"1", "2"}
         THEN \* default: return an error, which CopyCommand drops
              /\ pc' = "done"
              /\ ret' = "error: unsupported KV version"
              /\ UNCHANGED << idx, calls, target >>
         ELSE IF readRes # "ok" /\ kvVersion = "1"
         THEN \* case "1": log and continue
              /\ calls' = Append(calls, read)
              /\ idx' = idx + 1
              /\ UNCHANGED << pc, ret, target >>
         ELSE IF readRes # "ok" /\ nilResponse
         THEN \* case "2": log, then secret.Data.Data on a nil response
              /\ calls' = Append(calls, read)
              /\ pc' = "panic"
              /\ ret' = "panic: nil response"
              /\ UNCHANGED << idx, target >>
         ELSE \* the write, with the payload read (nil after a failed read)
              /\ calls' = Append(Append(calls, read), write)
              /\ target' = ServerWrite(target, targetVersion, writeOp, relativePath,
                                       data, writeRes)
              /\ idx' = idx + 1
              /\ UNCHANGED << pc, ret >>
    /\ UNCHANGED << cmd, mounts, secrets, pending, outcome, sourceMount, targetMount,
                    targetVersion, source, kvVersion, stack, secretsList >>

\* The loop is over: return nil
CopyReturn ==
    /\ cmd = "copy" /\ pc = "copy" /\ idx = Len(secretsList)
    /\ pc' = "done"
    /\ ret' = "nil"
    /\ UNCHANGED << cmd, mounts, secrets, pending, outcome, sourceMount, targetMount,
                    targetVersion, source, target, kvVersion, stack, secretsList,
                    idx, calls >>

(***************************************************************************)
(* Inputs of a copy run.                                                   *)
(***************************************************************************)
\* The spellings of --source-mount for the mount "a/"
SourceMountArgs == { << "a" >>, MountA }

TargetMountArg == << "t" >>

CopyMetas == { MetaVersion("1"), MetaVersion("2"), MetaVersion(""),
               MetaVersion("3"), MetaNoVersion, MetaNoOptions }

\* Relative leaf paths under the source mount: leaves at the root, a name
\* that is both a leaf and a namespace ("a" and "a/..."), siblings in one
\* namespace, namespaces side by side, and a namespace inside a namespace
LeafPaths ==
    { << "a" >>, << "b" >>,
      << "a", "/", "a" >>, << "a", "/", "b" >>,
      << "b", "/", "a" >>,
      << "a", "/", "b", "/", "a" >> }

\* The secret at "b" holds no data
SourcePayload(l) == IF l = << "b" >> THEN Nil ELSE Payload(l)

CopyInit ==
    /\ cmd = "copy"
    /\ pc = "start"
    /\ \E meta \in CopyMetas : mounts = (MountA :> meta)
    /\ secrets = << >> /\ pending = {} /\ outcome = << >>
    /\ sourceMount \in SourceMountArgs
    /\ targetMount = TargetMountArg
    /\ targetVersion \in {"1", "2"}
    /\ \E L \in Subsets(LeafPaths, MaxLeaves) : source = [ l \in L |-> SourcePayload(l) ]
    /\ target = << >>
    /\ kvVersion = "" /\ stack = << >> /\ secretsList = << >> /\ idx = 0
    /\ calls = << >>
    /\ ret = "none"

(***************************************************************************)
(* The specification.                                                      *)
(***************************************************************************)
Init == CreateInit \/ CopyInit

Next ==
    \/ CreateSetup
    \/ CreateEntry
    \/ CreateReturn
    \/ CopySetup
    \/ ListStart
    \/ TraverseUnsupported
    \/ TraverseListOk
    \/ TraverseListFail
    \/ TraverseKey
    \/ TraverseReturn
    \/ CopyEntry
    \/ CopyReturn

Spec == Init /\ [][Next]_vars

(***************************************************************************)
(* Vocabulary of the properties.                                           *)
(***************************************************************************)
ListOps  == { "KvV1List", "KvV2List" }
ReadOps  == { "KvV1Read", "KvV2Read" }
WriteOps == { "KvV1Write", "KvV2Write" }

\* The requests made for a document entry or a listed path
CallsFor(f) == { i \in DOMAIN calls : calls[i].for = f }

\* The mounts of M whose path is a literal prefix of P
MatchingMounts(P, M) == { m \in DOMAIN M : HasPrefix(P, m) }

\* The longest of them
LongestMatch(P, M) ==
    CHOOSE m \in MatchingMounts(P, M) : \A n \in MatchingMounts(P, M) : Len(n) <= Len(m)

\* P without its first n characters and without one trailing "/"
StripMount(P, n) ==
    LET r == [ i \in 1..(Len(P) - n) |-> P[n + i] ]
    IN  IF Len(r) > 0 /\ r[Len(r)] = Slash THEN [ i \in 1..(Len(r) - 1) |-> r[i] ] ELSE r

\* The mount table as CreateSecrets sees it
MountsMap == GetSecretEngines(mounts)

(***************************************************************************)
(* C1: when at least one mount path is a prefix of the secret path,        *)
(* findMountForSecret returns the mount with the longest such path and the *)
(* secret path without that mount path and without one trailing "/", in    *)
(* whatever order the map is iterated; CreateSecrets resolved every        *)
(* visited entry to that mount and relative path.                          *)
(***************************************************************************)
C1_LongestPrefixWins ==
    cmd = "create" =>
      \A P \in DOMAIN secrets :
        MatchingMounts(P, MountsMap) # {} =>
          LET best == LongestMatch(P, MountsMap) IN
          /\ \A order \in Orders(DOMAIN MountsMap) :
               LET r == findMountForSecret(P, MountsMap, order) IN
               /\ r.mountInfo = MountsMap[best]
               /\ r.mountInfo.MountPath = best
               /\ r.relativePath = StripMount(P, Len(best))
               /\ ~r.err
          /\ P \in DOMAIN outcome =>
               /\ outcome[P].mountInfo.MountPath = best
               /\ outcome[P].relativePath = StripMount(P, Len(best))

\* "a/b/c" was resolved with both "a/" and "a/b/" mounted: mount "a/b/", path "c"
C1_Witness ==
    /\ cmd = "create"
    /\ { MountA, MountAB } \subseteq DOMAIN mounts
    /\ PathABC \in DOMAIN outcome
    /\ outcome[PathABC].mountInfo.MountPath = MountAB
    /\ outcome[PathABC].relativePath = << "c" >>

(***************************************************************************)
(* C2: when no mount path is a prefix of the secret path,                  *)
(* findMountForSecret returns an error and CreateSecrets skips the entry   *)
(* through its mount-not-found branch, with no write for it.               *)
(***************************************************************************)
C2_NotFoundIsSignalled ==
    cmd = "create" =>
      \A P \in DOMAIN outcome :
        MatchingMounts(P, MountsMap) = {} =>
          /\ \A order \in Orders(DOMAIN MountsMap) :
               findMountForSecret(P, MountsMap, order).err
          /\ outcome[P].branch = "mount not found"
          /\ CallsFor(P) = {}

(***************************************************************************)
(* Vocabulary of the copy properties.                                      *)
(***************************************************************************)
\* The elements of a list
Elements(seq) == { seq[i] : i \in DOMAIN seq }

\* A leaf rendered as mount path, "/", path below the mount
FullPath(l) == TrimSuffix(sourceMount, Str1(Slash)) \o Str1(Slash) \o l

\* ListSecrets has returned its list to CopySecrets
ListReturned ==
    cmd = "copy" /\ (pc \in {"copy", "done"} \/ ret = "panic: nil response")

\* The answers the list calls got so far
ListAnswers == { calls[i].res : i \in { j \in DOMAIN calls : calls[j].op \in ListOps } }

\* The namespace paths whose list call was answered not-found
NotFoundAt ==
    { calls[i].path : i \in { j \in DOMAIN calls :
                                calls[j].op \in ListOps /\ calls[j].res = "404" } }

(***************************************************************************)
(* C3: when every list call succeeds, the list ListSecrets returns has no  *)
(* element ending in "/", no element twice, and its elements are exactly   *)
(* the leaves of the source mount, each as mount path "/" relative path.   *)
(***************************************************************************)
C3_TraverseYieldsLeaves ==
    (ListReturned /\ ListAnswers \subseteq {"ok"}) =>
      /\ Elements(secretsList) = { FullPath(l) : l \in DOMAIN source }
      /\ \A i \in DOMAIN secretsList : ~HasSuffix(secretsList[i], Str1(Slash))
      /\ Len(secretsList) = Cardinality(DOMAIN source)

\* A hierarchy with a leaf at the root and a leaf two namespaces down was
\* traversed with every list call answered
C3_Witness ==
    /\ ListReturned /\ pc = "copy" /\ idx = 0
    /\ ListAnswers = {"ok"}
    /\ DOMAIN source = { << "b" >>, << "a", "/", "b", "/", "a" >> }
    /\ Len(secretsList) = 2

(***************************************************************************)
(* C4: a not-found answer to a list call ends that branch only: the        *)
(* traversal does not fail unless some list call gets another error, and   *)
(* the returned list holds exactly the leaves that are not below a         *)
(* namespace whose list call was answered not-found.                       *)
(***************************************************************************)
C4_NotFoundEndsBranchOnly ==
    cmd = "copy" =>
      /\ (kvVersion \in {"1", "2"} /\ "500" \notin ListAnswers) =>
            ret # "exit 1: list secrets"
      /\ ListReturned =>
            Elements(secretsList) =
              { FullPath(l) : l \in { x \in DOMAIN source :
                                        \A p \in NotFoundAt : ~IsUnder(x, p) } }

\* The namespace "a" was answered not-found and the leaf "b" beside it is in
\* the returned list
C4_Witness ==
    /\ ListReturned
    /\ DOMAIN source = { << "a", "/", "a" >>, << "b" >> }
    /\ NotFoundAt = { << "a" >> }
    /\ Elements(secretsList) = { FullPath(<< "b" >>) }

(***************************************************************************)
(* C5: in the copy loop, for both variants, a failed read causes exactly   *)
(* that path to be skipped: no write is issued for it, nothing is          *)
(* dereferenced, and the loop reads every remaining path before it         *)
(* returns nil.                                                            *)
(***************************************************************************)
C5_PerSecretFailureIsolated ==
    cmd = "copy" =>
      /\ \A i \in DOMAIN calls :
           (calls[i].op \in ReadOps /\ calls[i].res # "ok") =>
             \A j \in CallsFor(calls[i].for) : calls[j].op \notin WriteOps
      /\ ret # "panic: nil response"
      /\ pc = "done" =>
           /\ ret = "nil"
           /\ \A k \in DOMAIN secretsList :
                \E j \in CallsFor(secretsList[k]) : calls[j].op \in ReadOps

(***************************************************************************)
(* C6: every write on the target connection is the write of the target     *)
(* mount's own variant, and every read on the source connection is the     *)
(* read of the source mount's variant.                                     *)
(***************************************************************************)
C6_EachSideUsesItsOwnVariant ==
    cmd = "copy" =>
      \A i \in DOMAIN calls :
        /\ (calls[i].conn = "target" /\ targetVersion = "2") => calls[i].op = "KvV2Write"
        /\ (calls[i].conn = "target" /\ targetVersion = "1") => calls[i].op = "KvV1Write"
        /\ (calls[i].op \in ReadOps /\ mounts[MountA] = MetaVersion("2")) =>
              calls[i].op = "KvV2Read"
        /\ (calls[i].op \in ReadOps /\ mounts[MountA] = MetaVersion("1")) =>
              calls[i].op = "KvV1Read"

(***************************************************************************)
(* C7: a mount without a version (reported as the empty string) is legacy  *)
(* at every call site: CreateSecrets issues a legacy write for an entry    *)
(* resolved to such a mount, and the copy of such a source mount does not  *)
(* fail at listing.                                                        *)
(***************************************************************************)
C7_EmptyVersionIsLegacy ==
    /\ cmd = "create" =>
         \A P \in DOMAIN outcome :
           ( /\ MatchingMounts(P, MountsMap) # {}
             /\ MountsMap[LongestMatch(P, MountsMap)].Version = "" ) =>
             \E j \in CallsFor(P) : calls[j].op = "KvV1Write"
    /\ (cmd = "copy" /\ mounts[MountA] \in { MetaVersion(""), MetaNoVersion }) =>
           /\ ret # "exit 1: list secrets"
           /\ \A i \in DOMAIN calls :
                calls[i].op \in { "KvV1List", "KvV1Read", "KvV1Write" }

(***************************************************************************)
(* C8, as amended: a version other than "1" and "2" is fatal to no create  *)
(* run and to every copy run.  In CreateSecrets an entry whose mount has   *)
(* such a version is skipped without a write, every entry whose mount has  *)
(* version "1" or "2" gets its write, and the run goes on.  In the copy    *)
(* path a source mount with such a version has nothing listed, read or     *)
(* written, and the run does not complete: ListSecrets returns its error   *)
(* before any list call and CopySecrets exits with status 1.               *)
(***************************************************************************)
\* CopySecrets has detected the source mount's version
VersionDetected ==
    /\ cmd = "copy"
    /\ \/ pc \in {"list", "traverse", "copy", "done"}
       \/ ret \in { "exit 1: list secrets", "panic: nil response",
                    "panic: mount metadata in ListSecrets" }

\* The create half of the claim, which the amendment leaves as it was
UnsupportedSkippedInCreate ==
    cmd = "create" =>
      /\ \A P \in DOMAIN outcome :
           MatchingMounts(P, MountsMap) # {} =>
             IF MountsMap[LongestMatch(P, MountsMap)].Version \in {"1", "2"}
             THEN Cardinality(CallsFor(P)) = 1
             ELSE CallsFor(P) = {} /\ outcome[P].branch = "unsupported version"
      /\ outcome # << >> => (pc \in {"loop", "done"} /\ ret \in {"none", "nil"})

ExpectedWrite(P, m, op, res) ==
    Call("source", op, [ i \in 1..(Len(m) - 1) |-> m[i] ], StripMount(P, Len(m)),
         secrets[P], res, P)

C9_EntriesIndependent ==
    cmd = "create" =>
      /\ pending \cup DOMAIN outcome = DOMAIN secrets
      /\ pending \cap DOMAIN outcome = {}
      /\ \A P \in pending : CallsFor(P) = {}
      /\ \A P \in DOMAIN outcome :
           /\ Cardinality(CallsFor(P)) <= 1
           /\ MatchingMounts(P, MountsMap) # {} =>
                LET m == LongestMatch(P, MountsMap)
                    v == MountsMap[m].Version
                IN  /\ v = "2" => \E j \in CallsFor(P), res \in {"ok", "error"} :
                                    calls[j] = ExpectedWrite(P, m, "KvV2Write", res)
                    /\ v = "1" => \E j \in CallsFor(P), res \in {"ok", "error"} :
                                    calls[j] = ExpectedWrite(P, m, "KvV1Write", res)
      /\ Len(calls) <= Cardinality(DOMAIN outcome)
      /\ pc = "done" => (pending = {} /\ ret = "nil")
      /\ outcome # << >> => pc \in {"loop", "done"}

\* A run returned nil after one entry's write failed and another entry got
\* its versioned write
C9_Witness ==
    /\ cmd = "create" /\ pc = "done" /\ ret = "nil"
    /\ \E P, Q \in DOMAIN outcome :
         /\ outcome[P].branch = "write failed"
         /\ outcome[Q].branch = "written"
         /\ \E j \in CallsFor(Q) : calls[j].op = "KvV2Write" /\ calls[j].res = "ok"

(***************************************************************************)
(* C10: after CopySecrets has finished, for every listed path whose read   *)
(* and write both succeeded, the target holds at the same relative path    *)
(* the payload stored in the source at that path, nil included, for both   *)
(* spellings of the source mount; the source is never written.             *)
(***************************************************************************)
C10_RoundTrip ==
    (cmd = "copy" /\ pc = "done") =>
      /\ \A l \in DOMAIN source :
           ( /\ \E j \in CallsFor(FullPath(l)) :
                    calls[j].op \in ReadOps /\ calls[j].res = "ok"
             /\ \E j \in CallsFor(FullPath(l)) :
                    calls[j].op \in WriteOps /\ calls[j].res = "ok" ) =>
             /\ l \in DOMAIN target
             /\ target[l] = [ data |-> source[l], wrapped |-> FALSE ]
      /\ \A i \in DOMAIN calls : calls[i].conn = "source" => calls[i].op \notin WriteOps

(***************************************************************************)
(* C11: in a copy run every read of a secret and every write to the target *)
(* comes after the traversal of the source mount has completed: no list    *)
(* call follows it and no list call got an error other than not-found.     *)
(* When a list call gets such an error, that call is the last request of   *)
(* the run: ListSecrets returns an error and a nil list, and CopySecrets   *)
(* ends with status 1 without a read of a secret or a write to the target. *)
(***************************************************************************)
C11_NoCopyBeforeTraversalCompletes ==
    cmd = "copy" =>
      /\ \A i \in DOMAIN calls :
           calls[i].op \in ReadOps \cup WriteOps =>
             /\ ListReturned
             /\ "500" \notin ListAnswers
             /\ \A j \in DOMAIN calls : calls[j].op \in ListOps => j < i
      /\ pc \in {"list", "traverse"} =>
           (target = << >> /\ idx = 0
            /\ \A i \in DOMAIN calls : calls[i].op \in ListOps)
      /\ "500" \in ListAnswers =>
           /\ pc = "exit1" /\ ret = "exit 1: list secrets"
           /\ stack = << >> /\ secretsList = << >>
           /\ idx = 0 /\ target = << >>
           /\ \A i \in DOMAIN calls : calls[i].op \in ListOps
           /\ calls[Len(calls)].res = "500"

\* The root was listed, the list call of the namespace "a" then got a server
\* error, and the run ended with status 1 although the root holds the leaf "b"
C11_Witness ==
    /\ cmd = "copy" /\ pc = "exit1" /\ ret = "exit 1: list secrets"
    /\ DOMAIN source = { << "a", "/", "a" >>, << "b" >> }
    /\ Len(calls) = 2
    /\ calls[1].res = "ok" /\ calls[1].path = Empty
    /\ calls[2].res = "500" /\ calls[2].path = << "a" >>
    /\ secretsList = << >>

====
